---- MODULE Spec2Model ----
(***************************************************************************)
(* Model of ArbitrageBot (src/bot.py): per-venue asyncio semaphores,       *)
(* get_balance / fetch_ticker / place_order and execute_arbitrage.         *)
(*                                                                         *)
(* Units: amounts (Decimal BTC) are counted in 0.0001 BTC, rates in 0.01,  *)
(* fees and slippage in 0.001 (per mille).  asyncio is cooperative, so the *)
(* code between two awaits is one atomic action.                           *)
(***************************************************************************)
EXTENDS Integers, Sequences, FiniteSets, TLC

\* ---------------------------------------------------------------- bounds
NumTasks == 2       \* concurrent execute_arbitrage invocations
MaxLegs == 3        \* longest opportunity
MaxCeiling == 2     \* largest rate_limit drawn for a venue
MaxTickers == 1     \* concurrent stand-alone fetch_ticker calls per venue

\* ------------------------------------------------------- program constants
DefaultSize == 10       \* Decimal('0.001') in units of 0.0001
LiquidityPct == 1       \* Decimal('0.01') as a percentage
SlippageEstimate == 1   \* Decimal('0.001') in per mille
MinOrderSize == 1       \* Decimal('0.0001') in units of 0.0001
MaxOrderSize == 10000   \* Decimal('1.0') in units of 0.0001
TradingFee == 5         \* Decimal('0.005') in per mille

Venues == {"A", "B"}
Tasks == 1..NumTasks
Rates == {0, 100}               \* quoted rates, in 0.01
BalVals == {0, 5, 10}           \* 'free' balances a venue may report

Min(a, b) == IF a <= b THEN a ELSE b

RECURSIVE SetMin(_)
SetMin(S) ==
    LET x == CHOOSE y \in S : TRUE
    IN  IF S = {x} THEN x ELSE Min(x, SetMin(S \ {x}))

\* opportunity: List[str], an ordered list of venue ids with at least two legs
Opportunities == UNION {[1..n -> Venues] : n \in 2..MaxLegs}

\* prices: Dict[str, Dict], venue id -> {'rate': ...} for some of the venues
Snapshots == UNION {[S -> Rates] : S \in SUBSET Venues}

\* exchange_configs, as main() builds them
exchange_configs ==
    [v \in Venues |-> [trading_fee |-> TradingFee,
                       min_order_size |-> MinOrderSize,
                       max_order_size |-> MaxOrderSize]]

VARIABLES
    rate_limit,      \* ExchangeConfig.rate_limit of each venue
    sem,             \* rate_limiters[v]: free permits of the semaphore
    tickers,         \* stand-alone fetch_ticker calls in flight per venue
    pc,              \* position of each execute_arbitrage call
    opportunity,     \* its opportunity argument
    prices,          \* its prices argument
    order_size,      \* its local order_size
    balances,        \* the gathered get_balance calls, one per leg
    total_slippage,  \* its local total_slippage
    i,               \* loop index of the order loop (0-based)
    po_balance,      \* place_order's local balance
    orders,          \* its local list of orders
    submitted,       \* orders sent to venues by this call, in order
    attempts,        \* place_order calls made by this call
    bal_calls,       \* fetch_balance requests this call sent, per venue
    ret              \* value the call returned

vars == <<rate_limit, sem, tickers, pc, opportunity, prices, order_size,
          balances, total_slippage, i, po_balance, orders, submitted, attempts,
          bal_calls, ret>>

taskvars == <<pc, opportunity, prices, order_size, balances, total_slippage,
              i, po_balance, orders, submitted, attempts, bal_calls, ret>>

\* 0-based leg k of task t
Leg(t, k) == opportunity[t][k + 1]

\* calculate_optimal_order_size: min(0.001, 1% of the smallest quoted rate)
\* over every entry of prices; a rate r (in 0.01) is r * 100 amount units.
calculate_optimal_order_size(p) ==
    LET min_liquidity == SetMin({p[v] : v \in DOMAIN p})
    IN  Min(DefaultSize, (min_liquidity * 100 * LiquidityPct) \div 100)

\* estimate_slippage: a constant
estimate_slippage(exchange_id, size, price) == SlippageEstimate

RECURSIVE SumSlippage(_, _, _)
SumSlippage(opp, size, p) ==
    IF opp = <<>> THEN 0
    ELSE estimate_slippage(Head(opp), size, p[Head(opp)])
         + SumSlippage(Tail(opp), size, p)

\* mutant: admits a caller when no permit is left
CanAcquire_OffByOne(v) == sem[v] >= 0

\* async with self.rate_limiters[v]: __aenter__ takes a permit when one is free
CanAcquire(v) == sem[v] > 0
\* mutant: the remote call is sent without taking a permit
Acquire_NoPermit(v) == sem

Acquire(v) == [sem EXCEPT ![v] = @ - 1]
\* mutant: the permit is given back only when the body returned
Release_NotOnRaise(v, raised) ==
    IF raised THEN sem ELSE [sem EXCEPT ![v] = @ + 1]

\* __aexit__ gives the permit back, whether the body returned or raised
Release(v, raised) == [sem EXCEPT ![v] = @ + 1]

\* mutant: a failed query is reported as a zero balance
BalanceResult_Zero(resp) == IF resp.raised THEN {0} ELSE {resp.free}

\* get_balance's result from the venue's answer.  Optional[Decimal] is a set
\* with at most one element: {} is None (the call raised), {b} is Decimal b.
BalanceResult(resp) == IF resp.raised THEN {} ELSE {resp.free}

\* what fetch_balance can do: raise, or answer with a 'free' amount
BalanceResponses ==
    {[raised |-> TRUE, free |-> 0]} \cup [raised : {FALSE}, free : BalVals]

\* answers drawn for the gathered queries: their value is only tested against
\* None (line 110), so one amount below and one at the default size suffice
GatherResponses == {resp \in BalanceResponses : resp.raised \/ resp.free > 0}

\* a gathered get_balance call: waiting for a permit, in flight, or done
Waiting == [st |-> "wait", raised |-> FALSE, res |-> {}]
InFlight == [st |-> "flight", raised |-> FALSE, res |-> {}]
Done(resp) == [st |-> "done", raised |-> resp.raised,
               res |-> BalanceResult(resp)]

NoPrices == [v \in {} |-> 0]

\* what execute_arbitrage returns: every return is a bare "return" (None)
Pending == [kind |-> "pending"]
None == [kind |-> "None"]

\* mutant: the minimum order size is not enforced
SizeValid_NoMin(exchange_id, amount) ==
    ~(amount > exchange_configs[exchange_id].max_order_size)

\* place_order's size validation (lines 61-66)
SizeValid(exchange_id, amount) ==
    /\ ~(amount < exchange_configs[exchange_id].min_order_size)
    /\ ~(amount > exchange_configs[exchange_id].max_order_size)

\* mutant: only a missing or zero balance is refused
BalanceInsufficient_Falsy(balance, amount) ==
    \/ balance = {}
    \/ \E b \in balance : b = 0

\* place_order's balance test: "not balance or balance < amount" is true for
\* None, for Decimal 0 and for a balance below the amount
BalanceInsufficient(balance, amount) ==
    \/ balance = {}
    \/ \E b \in balance : b = 0 \/ b < amount

\* range(len(opportunity) - 1): the indexes the order loop visits
LoopRange(opp) == 0..(Len(opp) - 2)

\* Position after the loop moves to index idx and, when idx is in range, after
\* place_order's synchronous prefix up to its first await.
LoopPc(t, idx) ==
    IF idx \notin LoopRange(opportunity[t]) THEN "finished"
    ELSE IF ~SizeValid(Leg(t, idx), order_size[t]) THEN "failed"
    ELSE "po_bal_wait"

Terminal == {"aborted", "failed", "finished", "raised"}

\* State after construction (__init__ fills rate_limiters from the configs)
\* with the execute_arbitrage calls the caller is about to make: the tasks in
\* called, each with arguments drawn from opps and snaps.
InitWith(called, opps, snaps) ==
    /\ rate_limit \in [Venues -> 1..MaxCeiling]
    /\ sem = rate_limit
    /\ tickers = [v \in Venues |-> 0]
    /\ pc = [t \in Tasks |-> IF t \in called THEN "idle" ELSE "unused"]
    /\ opportunity \in [Tasks -> opps \cup {<<>>}]
    /\ \A t \in Tasks : opportunity[t] = <<>> <=> t \notin called
    /\ prices \in [Tasks -> snaps \cup {NoPrices}]
    /\ \A t \in Tasks : IF t \in called THEN prices[t] \in snaps
                                        ELSE prices[t] = NoPrices
    /\ order_size = [t \in Tasks |-> -1]
    /\ balances = [t \in Tasks |-> <<>>]
    /\ total_slippage = [t \in Tasks |-> -1]
    /\ i = [t \in Tasks |-> 0]
    /\ po_balance = [t \in Tasks |-> {}]
    /\ orders = [t \in Tasks |-> <<>>]
    /\ submitted = [t \in Tasks |-> <<>>]
    /\ attempts = [t \in Tasks |-> 0]
    /\ bal_calls = [t \in Tasks |-> [v \in Venues |-> 0]]
    /\ ret = [t \in Tasks |-> Pending]

\* one execute_arbitrage call at a time, as main() makes them, on any inputs
Init == InitWith({1}, Opportunities, Snapshots)

\* every task calls execute_arbitrage concurrently, each on a two-leg
\* opportunity and a snapshot quoting every venue
TwoLegs == {opp \in Opportunities : Len(opp) = 2}
FullSnapshots == {[v \in Venues |-> 100]}
InitConc == InitWith(Tasks, TwoLegs, FullSnapshots)

\* execute_arbitrage is called: sizing, then the balance queries are gathered.
\* min() of an empty prices raises ValueError out of the call.
Execute(t) ==
    /\ pc[t] = "idle"
    /\ IF DOMAIN prices[t] = {}
       THEN /\ pc' = [pc EXCEPT ![t] = "raised"]
            /\ UNCHANGED <<order_size, balances>>
       ELSE /\ pc' = [pc EXCEPT ![t] = "gather"]
            /\ order_size' = [order_size EXCEPT
                                ![t] = calculate_optimal_order_size(prices[t])]
            /\ balances' = [balances EXCEPT
                              ![t] = [k \in 1..Len(opportunity[t]) |-> Waiting]]
    /\ UNCHANGED bal_calls
    /\ UNCHANGED <<rate_limit, sem, tickers, opportunity, prices,
                   total_slippage, i, po_balance, orders, submitted, attempts,
                   ret>>

\* get_balance of leg k (gathered): permit taken, fetch_balance sent
BalAcquire(t, k) ==
    /\ pc[t] = "gather"
    /\ k \in DOMAIN balances[t]
    /\ balances[t][k] = Waiting
    /\ CanAcquire(opportunity[t][k])
    /\ sem' = Acquire(opportunity[t][k])
    /\ balances' = [balances EXCEPT ![t][k] = InFlight]
    /\ bal_calls' = [bal_calls EXCEPT ![t][opportunity[t][k]] = @ + 1]
    /\ UNCHANGED <<rate_limit, tickers, pc, opportunity, prices, order_size,
                   total_slippage, i, po_balance, orders, submitted, attempts,
                   ret>>

\* fetch_balance answers or raises; the permit is released either way
BalReturn(t, k) ==
    /\ pc[t] = "gather"
    /\ k \in DOMAIN balances[t]
    /\ balances[t][k] = InFlight
    /\ \E resp \in GatherResponses :
        /\ balances' = [balances EXCEPT ![t][k] = Done(resp)]
        /\ sem' = Release(opportunity[t][k], resp.raised)
    /\ UNCHANGED bal_calls
    /\ UNCHANGED <<rate_limit, tickers, pc, opportunity, prices, order_size,
                   total_slippage, i, po_balance, orders, submitted, attempts,
                   ret>>

\* mutant: the order loop starts as soon as one balance query has answered
GatherDone_Early(t) ==
    /\ pc[t] = "gather"
    /\ \E k \in DOMAIN balances[t] : balances[t][k].st = "done"
    /\ IF \E k \in DOMAIN balances[t] :
             balances[t][k].st = "done" /\ balances[t][k].res = {}
       THEN /\ pc' = [pc EXCEPT ![t] = "aborted"]
            /\ ret' = [ret EXCEPT ![t] = None]
            /\ UNCHANGED <<total_slippage, i, attempts>>
       ELSE IF \E k \in DOMAIN opportunity[t] :
                    opportunity[t][k] \notin DOMAIN prices[t]
       THEN /\ pc' = [pc EXCEPT ![t] = "raised"]
            /\ UNCHANGED <<total_slippage, i, attempts, ret>>
       ELSE /\ total_slippage' = [total_slippage EXCEPT ![t] =
                    SumSlippage(opportunity[t], order_size[t], prices[t])]
            /\ pc' = [pc EXCEPT ![t] = LoopPc(t, 0)]
            /\ i' = [i EXCEPT ![t] = 0]
            /\ attempts' = [attempts EXCEPT ![t] =
                    IF 0 \in LoopRange(opportunity[t]) THEN @ + 1 ELSE @]
            /\ ret' = [ret EXCEPT ![t] =
                    IF LoopPc(t, 0) \in Terminal THEN None ELSE @]
    /\ UNCHANGED bal_calls
    /\ UNCHANGED <<rate_limit, sem, tickers, opportunity, prices, order_size,
                   balances, po_balance, orders, submitted>>

\* gather has every result: "None in balances" returns; otherwise the slippage
\* sum reads prices[exchange]['rate'] of every leg (KeyError when a leg has no
\* quote), and the order loop starts with place_order for index 0.
GatherDone(t) ==
    /\ pc[t] = "gather"
    /\ \A k \in DOMAIN balances[t] : balances[t][k].st = "done"
    /\ IF \E k \in DOMAIN balances[t] : balances[t][k].res = {}
       THEN /\ pc' = [pc EXCEPT ![t] = "aborted"]
            /\ ret' = [ret EXCEPT ![t] = None]
            /\ UNCHANGED <<total_slippage, i, attempts>>
       ELSE IF \E k \in DOMAIN opportunity[t] :
                    opportunity[t][k] \notin DOMAIN prices[t]
       THEN /\ pc' = [pc EXCEPT ![t] = "raised"]
            /\ UNCHANGED <<total_slippage, i, attempts, ret>>
       ELSE /\ total_slippage' = [total_slippage EXCEPT ![t] =
                    SumSlippage(opportunity[t], order_size[t], prices[t])]
            /\ pc' = [pc EXCEPT ![t] = LoopPc(t, 0)]
            /\ i' = [i EXCEPT ![t] = 0]
            /\ attempts' = [attempts EXCEPT ![t] =
                    IF 0 \in LoopRange(opportunity[t]) THEN @ + 1 ELSE @]
            /\ ret' = [ret EXCEPT ![t] =
                    IF LoopPc(t, 0) \in Terminal THEN None ELSE @]
    /\ UNCHANGED bal_calls
    /\ UNCHANGED <<rate_limit, sem, tickers, opportunity, prices, order_size,
                   balances, po_balance, orders, submitted>>

\* place_order's own get_balance: permit taken, fetch_balance sent
PoBalAcquire(t) ==
    /\ pc[t] = "po_bal_wait"
    /\ CanAcquire(Leg(t, i[t]))
    /\ sem' = Acquire(Leg(t, i[t]))
    /\ pc' = [pc EXCEPT ![t] = "po_bal_flight"]
    /\ bal_calls' = [bal_calls EXCEPT ![t][Leg(t, i[t])] = @ + 1]
    /\ UNCHANGED <<rate_limit, tickers, opportunity, prices, order_size,
                   balances, total_slippage, i, po_balance, orders, submitted,
                   attempts, ret>>

\* mutant: the order's permit is requested while the balance query's permit
\* is still held
PoBalReturn_KeepPermit(t) ==
    /\ pc[t] = "po_bal_flight"
    /\ \E resp \in BalanceResponses :
        LET balance == BalanceResult(resp)
        IN  /\ sem' = (IF BalanceInsufficient(balance, order_size[t])
                        THEN Release(Leg(t, i[t]), resp.raised) ELSE sem)
            /\ po_balance' = [po_balance EXCEPT ![t] = balance]
            /\ IF BalanceInsufficient(balance, order_size[t])
               THEN /\ pc' = [pc EXCEPT ![t] = "failed"]
                    /\ ret' = [ret EXCEPT ![t] = None]
               ELSE /\ pc' = [pc EXCEPT ![t] = "po_ord_wait"]
                    /\ UNCHANGED ret
    /\ UNCHANGED bal_calls
    /\ UNCHANGED <<rate_limit, tickers, opportunity, prices, order_size,
                   balances, total_slippage, i, orders, submitted, attempts>>

\* its answer: permit released; an insufficient balance makes place_order
\* return None, and execute_arbitrage returns on "not order"
PoBalReturn(t) ==
    /\ pc[t] = "po_bal_flight"
    /\ \E resp \in BalanceResponses :
        LET balance == BalanceResult(resp)
        IN  /\ sem' = Release(Leg(t, i[t]), resp.raised)
            /\ po_balance' = [po_balance EXCEPT ![t] = balance]
            /\ IF BalanceInsufficient(balance, order_size[t])
               THEN /\ pc' = [pc EXCEPT ![t] = "failed"]
                    /\ ret' = [ret EXCEPT ![t] = None]
               ELSE /\ pc' = [pc EXCEPT ![t] = "po_ord_wait"]
                    /\ UNCHANGED ret
    /\ UNCHANGED bal_calls
    /\ UNCHANGED <<rate_limit, tickers, opportunity, prices, order_size,
                   balances, total_slippage, i, orders, submitted, attempts>>

\* the side execute_arbitrage passes to place_order for loop index idx
Side(idx) == "buy"

\* the market order place_order sends for the current leg
OrderRequest(t) ==
    [leg |-> i[t], venue |-> Leg(t, i[t]), side |-> Side(i[t]),
     amount |-> order_size[t]]

\* place_order: permit taken, create_market_buy/sell_order sent
PoOrdAcquire(t) ==
    /\ pc[t] = "po_ord_wait"
    /\ CanAcquire(Leg(t, i[t]))
    /\ sem' = Acquire(Leg(t, i[t]))
    /\ pc' = [pc EXCEPT ![t] = "po_ord_flight"]
    /\ submitted' = [submitted EXCEPT ![t] = Append(@, OrderRequest(t))]
    /\ UNCHANGED bal_calls
    /\ UNCHANGED <<rate_limit, tickers, opportunity, prices, order_size,
                   balances, total_slippage, i, po_balance, orders, attempts,
                   ret>>

\* mutant: a failed order is sent again
PoOrdReturn_Retry(t) ==
    /\ pc[t] = "po_ord_flight"
    /\ \E raised \in BOOLEAN :
        /\ sem' = Release(Leg(t, i[t]), raised)
        /\ IF raised
           THEN /\ pc' = [pc EXCEPT ![t] = "po_ord_wait"]
                /\ UNCHANGED <<i, orders, attempts, ret>>
           ELSE /\ orders' = [orders EXCEPT ![t] = Append(@, OrderRequest(t))]
                /\ pc' = [pc EXCEPT ![t] = LoopPc(t, i[t] + 1)]
                /\ i' = [i EXCEPT ![t] =
                      IF @ + 1 \in LoopRange(opportunity[t]) THEN @ + 1 ELSE @]
                /\ attempts' = [attempts EXCEPT ![t] =
                      IF i[t] + 1 \in LoopRange(opportunity[t])
                      THEN @ + 1 ELSE @]
                /\ ret' = [ret EXCEPT ![t] =
                      IF LoopPc(t, i[t] + 1) \in Terminal THEN None ELSE @]
    /\ UNCHANGED bal_calls
    /\ UNCHANGED <<rate_limit, tickers, opportunity, prices, order_size,
                   balances, total_slippage, po_balance, submitted>>

\* mutant: a failed order does not stop the loop, which goes on to the next leg
PoOrdReturn_NoStop(t) ==
    /\ pc[t] = "po_ord_flight"
    /\ \E raised \in BOOLEAN :
        /\ sem' = Release(Leg(t, i[t]), raised)
        /\ IF raised
           THEN /\ UNCHANGED orders
           ELSE orders' = [orders EXCEPT ![t] = Append(@, OrderRequest(t))]
        /\ pc' = [pc EXCEPT ![t] = LoopPc(t, i[t] + 1)]
        /\ i' = [i EXCEPT ![t] =
              IF @ + 1 \in LoopRange(opportunity[t]) THEN @ + 1 ELSE @]
        /\ attempts' = [attempts EXCEPT ![t] =
              IF i[t] + 1 \in LoopRange(opportunity[t]) THEN @ + 1 ELSE @]
        /\ ret' = [ret EXCEPT ![t] =
              IF LoopPc(t, i[t] + 1) \in Terminal THEN None ELSE @]
    /\ UNCHANGED bal_calls
    /\ UNCHANGED <<rate_limit, tickers, opportunity, prices, order_size,
                   balances, total_slippage, po_balance, submitted>>

\* the venue answers with an order or the call raises; permit released.  On an
\* order the loop appends it and moves on to the next index; on an error
\* place_order returns None and execute_arbitrage returns.
PoOrdReturn(t) ==
    /\ pc[t] = "po_ord_flight"
    /\ \E raised \in BOOLEAN :
        /\ sem' = Release(Leg(t, i[t]), raised)
        /\ IF raised
           THEN /\ pc' = [pc EXCEPT ![t] = "failed"]
                /\ ret' = [ret EXCEPT ![t] = None]
                /\ UNCHANGED <<i, orders, attempts>>
           ELSE /\ orders' = [orders EXCEPT ![t] = Append(@, OrderRequest(t))]
                /\ pc' = [pc EXCEPT ![t] = LoopPc(t, i[t] + 1)]
                /\ i' = [i EXCEPT ![t] =
                      IF @ + 1 \in LoopRange(opportunity[t]) THEN @ + 1 ELSE @]
                /\ attempts' = [attempts EXCEPT ![t] =
                      IF i[t] + 1 \in LoopRange(opportunity[t])
                      THEN @ + 1 ELSE @]
                /\ ret' = [ret EXCEPT ![t] =
                      IF LoopPc(t, i[t] + 1) \in Terminal THEN None ELSE @]
    /\ UNCHANGED bal_calls
    /\ UNCHANGED <<rate_limit, tickers, opportunity, prices, order_size,
                   balances, total_slippage, po_balance, submitted>>

\* fetch_ticker called on its own (price polling): permit taken, request sent
TickerAcquire(v) ==
    /\ tickers[v] < MaxTickers
    /\ CanAcquire(v)
    /\ sem' = Acquire(v)
    /\ tickers' = [tickers EXCEPT ![v] = @ + 1]
    /\ UNCHANGED <<rate_limit, taskvars>>

\* the ticker arrives or the call raises; permit released either way
TickerReturn(v) ==
    /\ tickers[v] > 0
    /\ \E raised \in BOOLEAN : sem' = Release(v, raised)
    /\ tickers' = [tickers EXCEPT ![v] = @ - 1]
    /\ UNCHANGED <<rate_limit, taskvars>>

\* one execute_arbitrage call's steps, for every call made
Next ==
    \/ \E t \in Tasks : Execute(t)
    \/ \E t \in Tasks, k \in 1..MaxLegs : BalAcquire(t, k)
    \/ \E t \in Tasks, k \in 1..MaxLegs : BalReturn(t, k)
    \/ \E t \in Tasks : GatherDone(t)
    \/ \E t \in Tasks : PoBalAcquire(t)
    \/ \E t \in Tasks : PoBalReturn(t)
    \/ \E t \in Tasks : PoOrdAcquire(t)
    \/ \E t \in Tasks : PoOrdReturn(t)

\* the same with price polling (fetch_ticker) going on at the same time
NextConc ==
    \/ Next
    \/ \E v \in Venues : TickerAcquire(v)
    \/ \E v \in Venues : TickerReturn(v)

\* main(): execute_arbitrage runs alone, after fetch_prices has returned
Spec == Init /\ [][Next]_vars

\* the methods used concurrently: several execute_arbitrage calls and tickers
SpecConc == InitConc /\ [][NextConc]_vars

\* one execute_arbitrage call on a two-leg opportunity while prices are polled
InitPoll == InitWith({1}, TwoLegs, FullSnapshots)
SpecPoll == InitPoll /\ [][NextConc]_vars

\* steps the event loop takes by itself: a call starts, a coroutine that can
\* have a permit takes it and sends its request, a finished gather resumes
ProgramStep ==
    \/ \E t \in Tasks : Execute(t)
    \/ \E t \in Tasks, k \in 1..MaxLegs : BalAcquire(t, k)
    \/ \E t \in Tasks : GatherDone(t)
    \/ \E t \in Tasks : PoBalAcquire(t)
    \/ \E t \in Tasks : PoOrdAcquire(t)

\* steps that need the venue: a remote call answers or raises
VenueAnswer ==
    \/ \E t \in Tasks, k \in 1..MaxLegs : BalReturn(t, k)
    \/ \E t \in Tasks : PoBalReturn(t)
    \/ \E t \in Tasks : PoOrdReturn(t)

\* one call on any opportunity and a snapshot quoting every venue
InitLive == InitWith({1}, Opportunities, FullSnapshots)

\* the event loop runs what is runnable and every remote call comes back
SpecLive ==
    InitLive /\ [][Next]_vars /\ WF_vars(ProgramStep) /\ WF_vars(VenueAnswer)

\* the event loop runs what is runnable; a venue may stay silent for ever
\* (no await in the code is wrapped in a timeout)
SpecSilent == InitLive /\ [][Next]_vars /\ WF_vars(ProgramStep)

\* ------------------------------------------------------------ properties

\* remote calls of task t in flight on venue v
TaskInFlightOn(t, v) ==
    Cardinality({k \in DOMAIN balances[t] :
                    balances[t][k].st = "flight" /\ opportunity[t][k] = v})
    + (IF pc[t] \in {"po_bal_flight", "po_ord_flight"} /\ Leg(t, i[t]) = v
       THEN 1 ELSE 0)

RECURSIVE SumInFlight(_, _)
SumInFlight(T, v) ==
    IF T = {} THEN 0
    ELSE LET t == CHOOSE x \in T : TRUE
         IN  TaskInFlightOn(t, v) + SumInFlight(T \ {t}, v)

\* remote calls in flight on venue v, from every caller
InFlightOn(v) == SumInFlight(Tasks, v) + tickers[v]

\* task t waits for a permit of venue v
TaskWaitsOn(t, v) ==
    \/ \E k \in DOMAIN balances[t] :
          pc[t] = "gather" /\ balances[t][k].st = "wait" /\ opportunity[t][k] = v
    \/ pc[t] \in {"po_bal_wait", "po_ord_wait"} /\ Leg(t, i[t]) = v

\* every leg of task t's opportunity is quoted in its snapshot
ValidOpportunity(t) ==
    /\ opportunity[t] # <<>>
    /\ \A k \in DOMAIN opportunity[t] : opportunity[t][k] \in DOMAIN prices[t]

\* C1: within one execute_arbitrage call the orders go out one at a time in
\* opportunity order: the n-th order sent is the one of leg n-1, and it is sent
\* only when every earlier order has come back as a placed order.
C1_SequentialOrders ==
    \A t \in Tasks :
        /\ \A n \in DOMAIN submitted[t] :
              /\ submitted[t][n].leg = n - 1
              /\ submitted[t][n].venue = opportunity[t][n]
              /\ \A m \in 1..(n - 1) :
                    m \in DOMAIN orders[t] /\ orders[t][m] = submitted[t][m]
        /\ Len(submitted[t]) - Len(orders[t])
              = (IF pc[t] = "po_ord_flight" THEN 1
                 ELSE IF pc[t] = "failed" /\ Len(submitted[t]) = i[t] + 1
                 THEN 1 ELSE 0)

\* C1 witness: the order of the second leg is in flight after the first was placed
C1_Witness ==
    \E t \in Tasks :
        pc[t] = "po_ord_flight" /\ Len(submitted[t]) = 2 /\ Len(orders[t]) = 1

\* C2: when the order of leg k fails, legs 0..k-1 were placed, nothing was sent
\* for a later leg, place_order was called exactly k+1 times, and no further
\* (reversal) order exists beyond the legs' own.
C2_StopAtFailedLeg ==
    \A t \in Tasks :
        pc[t] = "failed" =>
            /\ Len(orders[t]) = i[t]
            /\ \A n \in DOMAIN orders[t] : orders[t][n].leg = n - 1
            /\ attempts[t] = i[t] + 1
            /\ Len(submitted[t]) <= i[t] + 1
            /\ \A n \in DOMAIN submitted[t] : submitted[t][n].leg = n - 1

\* C2 witness: the second leg's order was sent and failed after the first succeeded
C2_Witness ==
    \E t \in Tasks :
        pc[t] = "failed" /\ i[t] = 1 /\ Len(submitted[t]) = 2

\* C3: on every venue the remote calls in flight never exceed its rate_limit
C3_CeilingRespected == \A v \in Venues : InFlightOn(v) <= rate_limit[v]

\* C3 witness: a venue is at its ceiling with calls of two different
\* execute_arbitrage tasks in flight while another caller waits for a permit
C3_Witness ==
    \E v \in Venues :
        /\ InFlightOn(v) = rate_limit[v]
        /\ \E t1, t2 \in Tasks :
              t1 # t2 /\ TaskInFlightOn(t1, v) > 0 /\ TaskInFlightOn(t2, v) > 0
        /\ \E t \in Tasks : TaskWaitsOn(t, v)

\* C4: once a leg's gathered balance query has answered with a balance below
\* the order size, no order of that call is sent to any venue.
C4_LowBalanceNoOrder ==
    \A t \in Tasks :
        (/\ ValidOpportunity(t)
         /\ \E k \in DOMAIN balances[t] :
               /\ balances[t][k].st = "done"
               /\ \E b \in balances[t][k].res : b < order_size[t])
        => submitted[t] = <<>>

\* C5: a gathered balance query that raised yields None, not a number, the
\* call places no order and ends aborted once the gather is over.
C5_FailedQueryAborts ==
    \A t \in Tasks :
        \A k \in DOMAIN balances[t] :
            (balances[t][k].st = "done" /\ balances[t][k].raised) =>
                /\ balances[t][k].res = {}
                /\ submitted[t] = <<>>
                /\ attempts[t] = 0
                /\ pc[t] \in {"gather", "aborted"}

\* C5 witness: a call on a valid opportunity aborted after a failed query
C5_Witness ==
    \E t \in Tasks :
        /\ pc[t] = "aborted"
        /\ ValidOpportunity(t)
        /\ \E k \in DOMAIN balances[t] : balances[t][k].raised

RECURSIVE SumFees(_)
SumFees(opp) ==
    IF opp = <<>> THEN 0
    ELSE exchange_configs[Head(opp)].trading_fee + SumFees(Tail(opp))

\* gross differential (last - first) / first is at most fees plus slippage,
\* both in per mille
Unprofitable(t) ==
    LET first == prices[t][opportunity[t][1]]
        last == prices[t][opportunity[t][Len(opportunity[t])]]
        cost == SumFees(opportunity[t])
                + SumSlippage(opportunity[t], order_size[t], prices[t])
    IN  (last - first) * 1000 <= cost * first

\* C6: a call on a valid opportunity whose gross differential does not exceed
\* fees plus slippage sends no order.
C6_UnprofitableNoOrder ==
    \A t \in Tasks :
        (ValidOpportunity(t) /\ Unprofitable(t)) => submitted[t] = <<>>

\* C7: a call whose opportunity names a leg without a quote issues no remote
\* call and does not end in an escaping exception.
C7_InvalidSnapshotNoCalls ==
    \A t \in Tasks :
        (opportunity[t] # <<>> /\ ~ValidOpportunity(t)) =>
            /\ \A k \in DOMAIN balances[t] : balances[t][k].st = "wait"
            /\ pc[t] # "raised"

\* C8: a call that ran through without failure has sent one order per leg,
\* the last leg included, in opportunity order.
C8_AllLegsOrdered ==
    \A t \in Tasks :
        pc[t] = "finished" =>
            /\ Len(submitted[t]) = Len(opportunity[t])
            /\ \A n \in DOMAIN submitted[t] : submitted[t][n].leg = n - 1

\* C9: the returned value tells the terminal states apart and carries their
\* detail: the failed leg and the placed orders, all orders on success, the
\* reason on an abort.
C9_OutcomeCarriesDetail ==
    \A t \in Tasks :
        /\ pc[t] = "failed" =>
              ret[t] = [kind |-> "PartiallyFailed", failedAt |-> i[t],
                        succeededLegs |-> orders[t]]
        /\ pc[t] = "finished" =>
              ret[t] = [kind |-> "Succeeded", succeededLegs |-> orders[t]]
        /\ pc[t] = "aborted" =>
              ret[t] = [kind |-> "Aborted", reason |-> "BalanceUnknown"]

\* C10: every permit taken is given back exactly once: free permits plus calls
\* in flight always equal the ceiling, so the free permits never exceed it and
\* equal it whenever no call is in flight.
C10_PermitsConserved ==
    \A v \in Venues :
        /\ sem[v] + InFlightOn(v) = rate_limit[v]
        /\ sem[v] <= rate_limit[v]
        /\ InFlightOn(v) = 0 => sem[v] = rate_limit[v]

\* C10 witness: nothing in flight and every permit free after a call whose
\* earlier queries and first order returned and whose second order raised
C10_Witness ==
    /\ \A v \in Venues : InFlightOn(v) = 0 /\ sem[v] = rate_limit[v]
    /\ \E t \in Tasks :
          pc[t] = "failed" /\ i[t] = 1 /\ Len(submitted[t]) = 2

\* C12: every order sent to a venue has an amount within that venue's
\* min_order_size and max_order_size.
C12_AmountWithinBounds ==
    \A t \in Tasks :
        \A n \in DOMAIN submitted[t] :
            LET config == exchange_configs[submitted[t][n].venue]
            IN  /\ config.min_order_size <= submitted[t][n].amount
                /\ submitted[t][n].amount <= config.max_order_size

\* C12 witness: place_order refused an amount below the minimum and the call
\* ended without sending anything
C12_Witness ==
    \E t \in Tasks :
        /\ pc[t] = "failed"
        /\ attempts[t] = 1
        /\ order_size[t] < exchange_configs[Leg(t, 0)].min_order_size
        /\ submitted[t] = <<>>

\* permits of venue v's semaphore that are currently taken
PermitsTaken(v) == rate_limit[v] - sem[v]

\* C13: every remote operation in flight on a venue (balance, ticker, order)
\* is covered by a permit taken from that venue's semaphore.
C13_InFlightHoldsPermit ==
    \A v \in Venues : InFlightOn(v) <= PermitsTaken(v)

\* C13 witness: an order and a ticker fetch are in flight on one venue, each
\* under its own permit
C13_Witness ==
    \E v \in Venues :
        /\ tickers[v] > 0
        /\ \E t \in Tasks : pc[t] = "po_ord_flight" /\ Leg(t, i[t]) = v
        /\ PermitsTaken(v) = 2

\* C14: within one call no leg index has more than one order sent to the
\* venue and place_order is called at most once per index, whatever came back.
C14_NoRetry ==
    \A t \in Tasks :
        /\ \A n, m \in DOMAIN submitted[t] :
              n # m => submitted[t][n].leg # submitted[t][m].leg
        /\ attempts[t] <= i[t] + 1

\* C14 witness: the first leg's order was sent once, raised, and the call ended
C14_Witness ==
    \E t \in Tasks :
        /\ pc[t] = "failed"
        /\ i[t] = 0
        /\ Len(submitted[t]) = 1
        /\ attempts[t] = 1

\* C15: the first order of a call is a buy and every later one a sell.
C15_SideByRole ==
    \A t \in Tasks :
        \A n \in DOMAIN submitted[t] :
            submitted[t][n].side = (IF n = 1 THEN "buy" ELSE "sell")

\* min(cap, 1% of the smallest rate) over the quotes of the legs only
SizeFromLegs(t) ==
    LET legRates == {prices[t][opportunity[t][k]] : k \in DOMAIN opportunity[t]}
    IN  Min(DefaultSize, (SetMin(legRates) * 100 * LiquidityPct) \div 100)

\* C16: the computed order size is min(cap, 1% of the smallest rate among the
\* legs' quotes); quotes of venues that are no leg do not change it.
C16_SizeFromLegsOnly ==
    \A t \in Tasks :
        (ValidOpportunity(t) /\ pc[t] \notin {"idle", "unused"}) =>
            order_size[t] = SizeFromLegs(t)

\* C18: nothing of the order phase starts (no place_order call, no order sent)
\* before every gathered balance query is done and the slippage of all legs
\* has been summed.
C18_PhasesInOrder ==
    \A t \in Tasks :
        (attempts[t] > 0 \/ submitted[t] # <<>>) =>
            /\ \A k \in DOMAIN balances[t] : balances[t][k].st = "done"
            /\ total_slippage[t]
                  = SumSlippage(opportunity[t], order_size[t], prices[t])

\* C18 witness: the first order is in flight after three balance queries
\* answered and the slippage was summed
C18_Witness ==
    \E t \in Tasks :
        /\ pc[t] = "po_ord_flight"
        /\ Len(submitted[t]) = 1
        /\ Len(balances[t]) = 3
        /\ total_slippage[t] = 3 * SlippageEstimate

\* legs of opp on venue v
LegsOn(opp, v) == Cardinality({k \in DOMAIN opp : opp[k] = v})

\* orders in sent that went to venue v
OrdersOn(sent, v) == Cardinality({n \in DOMAIN sent : sent[n].venue = v})

\* C20: an order goes out only after place_order's own balance query on that
\* venue answered with a non-zero balance of at least the amount; a query that
\* raised, answered zero or answered less ends the call with nothing sent for
\* that leg; and when an order is sent each venue has seen one balance query
\* per leg (check phase) plus one per order sent to it (order time).
C20_FreshBalanceBeforeOrder ==
    \A t \in Tasks :
        /\ pc[t] \in {"po_ord_wait", "po_ord_flight"} =>
              \E b \in po_balance[t] : b # 0 /\ b >= order_size[t]
        /\ (/\ pc[t] = "failed"
            /\ SizeValid(Leg(t, i[t]), order_size[t])
            /\ \/ po_balance[t] = {}
               \/ \E b \in po_balance[t] : b = 0 \/ b < order_size[t])
           => Len(submitted[t]) = i[t]
        /\ pc[t] = "po_ord_flight" =>
              \A v \in Venues :
                  bal_calls[t][v]
                     = LegsOn(opportunity[t], v) + OrdersOn(submitted[t], v)

\* C20 witness: the second leg's order is in flight on the venue of the first,
\* which by then has answered four balance queries
C20_Witness ==
    \E t \in Tasks :
        /\ pc[t] = "po_ord_flight"
        /\ i[t] = 1
        /\ Leg(t, 0) = Leg(t, 1)
        /\ bal_calls[t][Leg(t, 1)] >= 4

\* C19: permits are never nested and waiting never deadlocks: every permit
\* taken belongs to a call in flight (none is held by a caller that waits for
\* another), so whenever a caller waits on a venue either a permit is free or
\* a call is in flight there whose return frees one.
C19_NoNestedPermits ==
    \A v \in Venues :
        /\ PermitsTaken(v) <= InFlightOn(v)
        /\ \A t \in Tasks :
              TaskWaitsOn(t, v) => (sem[v] > 0 \/ InFlightOn(v) > 0)

\* C19 witness: ceiling 1, one call with the venue in both legs waits for the
\* permit while another call's order holds it
C19_Witness ==
    \E v \in Venues :
        /\ rate_limit[v] = 1
        /\ \E t1, t2 \in Tasks :
              /\ t1 # t2
              /\ opportunity[t1] = <<v, v>>
              /\ pc[t1] = "po_ord_wait"
              /\ pc[t2] = "po_ord_flight"
              /\ Leg(t2, i[t2]) = v

\* the gathered balance query of leg k waits for a permit
BalWaiting(t, k) ==
    k \in DOMAIN balances[t] /\ pc[t] = "gather" /\ balances[t][k].st = "wait"

\* the call has started and has not ended
Running(t) == pc[t] \notin Terminal \cup {"idle", "unused"}

\* C11: remote calls are bounded in time, so also when a venue stays silent a
\* call that has started ends (aborted or failed) and leaves no permit taken.
C11_SilentVenueTerminates ==
    \A t \in Tasks :
        Running(t) ~> (pc[t] \in Terminal /\ \A v \in Venues : PermitsTaken(v) = 0)

\* C17: a caller waiting for a permit is only delayed: while every remote call
\* comes back, each waiting caller eventually has its permit.
C17_WaiterEventuallyProceeds ==
    \A t \in Tasks :
        /\ \A k \in 1..MaxLegs : BalWaiting(t, k) ~> ~BalWaiting(t, k)
        /\ (pc[t] = "po_bal_wait") ~> (pc[t] # "po_bal_wait")
        /\ (pc[t] = "po_ord_wait") ~> (pc[t] # "po_ord_wait")

\* C17 witness: a gathered query waits on a venue whose permits are all taken
C17_Witness ==
    \E t \in Tasks, k \in 1..MaxLegs :
        BalWaiting(t, k) /\ sem[opportunity[t][k]] = 0

====
